---- MODULE Spec2Model ----
(***************************************************************************)
(* Model of notify-matrix-join.py: a bot that watches a matrix space and   *)
(* some rooms for new members, invites new space members into further      *)
(* rooms and sends a notification email.                                   *)
(*                                                                         *)
(* The homeserver (room names, room members, the rooms the bot's account   *)
(* has joined, the stream of membership events) is the environment.  The   *)
(* bot is the supervising loop at the end of the script, the startup       *)
(* callback room_joined with populate_watched_room_ids, and the event      *)
(* handler notify with user_already_known and room_members.  Every HTTP    *)
(* request and the SMTP dialogue have an outcome the handler cannot        *)
(* choose; the actions draw it from the outcome sets below.                *)
(***************************************************************************)
EXTENDS Integers, Sequences, FiniteSets, TLC

\* ---------------------------------------------------------------- bounds
\* server-side membership changes in one behaviour
MaxEvents == 2
\* server-side room renames in one behaviour
MaxRenames == 1
\* membership events delivered to the bot and not yet handled
MaxQueue == 2
\* rooms whose name request fails during one populate_watched_room_ids
MaxNameFailures == 1

\* ------------------------------------------------------------ the server
Rooms == {"!s", "!a", "!b"}
Users == {"@old", "@new"}
\* the users whose membership changes within a behaviour; the others stay
\* where they are at the start
Movers == {"@new"}
\* m.room.name is optional state: NoName stands for a room without one
NoName == "<none>"
\* the renames the model is run with: a watched room loses its name, a
\* second room takes the space's name, the space takes another room's name,
\* an invite target loses its name
RenameChoices == {<<"!a", NoName>>, <<"!b", "Space">>, <<"!s", "RoomB">>,
                  <<"!b", NoName>>}
\* what room.display_name yields for a room without a name (a computed name)
FallbackName == "Empty Room"

\* -------------------------------------------------------- the command line
\* --matrixspace
SpaceName == "Space"
\* the --matrixwatch / --matrixinvite lists the model is run with
WatchChoices == {<< >>, <<"RoomA">>}
InviteChoices == {<<"RoomB">>, <<"RoomB", "RoomA">>}

\* ------------------------------------------------------- request outcomes
\* GET .../members: 200 with a chunk list, another status, a 200 body that
\* does not parse to a chunk list, or requests raising (no connection)
MemberOutcomes == {"ok", "non200", "malformed", "transport"}
\* GET .../joined_rooms, likewise
EnumOutcomes == {"ok", "non200", "malformed", "transport"}
\* per room in populate's loop: the name request answers 200 with a name,
\* answers another status, or raises (transport, or a 200 body without
\* 'name'); or the room_members call inside the log line raises
NameOutcomes == {"ok", "non200", "raise_name", "raise_members"}
\* POST .../invite: any response (the code ignores it) or requests raising
InviteOutcomes == {"ok", "error", "transport"}
\* the try block of notify: sent, an SMTP step raising, or
\* event.content["displayname"] raising KeyError
MailOutcomes == {"sent", "smtp_fail", "no_displayname"}

VARIABLES
    roomName,          \* server: room id -> m.room.name or NoName
    members,           \* server: room id -> set of joined users
    joined_rooms,      \* server: the rooms the bot's account has joined
    config,            \* parsed command line: [watch, invite]
    space_id,          \* global space_id ("None" for None)
    watched_room_ids,  \* global watched_room_ids
    to_invite_ids,     \* global to_invite_ids
    pc,                \* supervising loop: "run", "startup", "sync", "sleep"
    todo,              \* startup callbacks still to be called in this run
    queue,             \* membership events delivered and not yet handled
    last,              \* what the last notify invocation of this run did
    emailed,           \* users a notification email was sent for
    nev,               \* membership changes so far
    nren,              \* renames so far
    pop                \* how the last populate_watched_room_ids ended

vars == <<roomName, members, joined_rooms, config, space_id, watched_room_ids,
          to_invite_ids, pc, todo, queue, last, emailed, nev, nren, pop>>

server == <<roomName, members, joined_rooms>>
registry == <<space_id, watched_room_ids, to_invite_ids>>

\* ------------------------------------------------------------ helpers
SeqToSet(s) == {s[i] : i \in 1..Len(s)}

\* the orders in which the server lists the rooms of joined_rooms
RoomOrders == {<<"!s", "!a", "!b">>, <<"!b", "!a", "!s">>}
Orders(S) == {SelectSeq(o, LAMBDA r : r \in S) : o \in RoomOrders}

\* watched_rooms = [config["space"],] + config['watch']
watched_rooms == <<SpaceName>> \o config.watch

\* to_invite = [] + config['invite']
to_invite == config.invite

\* room.display_name
display_name(r) == IF roomName[r] = NoName THEN FallbackName ELSE roomName[r]

\* x in list
In(x, s) == x \in SeqToSet(s)

\* ------------------------------------------------------ room_members
\* the outcome o of the request decides: requests raising leaves the
\* function by an exception, a status other than 200 or a body without a
\* parseable chunk list gives [], and 200 gives the joined users
room_members(room_id, o) ==
    [raised |-> o = "transport",
     members |-> IF o = "ok" THEN members[room_id] ELSE {}]

\* ------------------------------------------------ user_already_known
\* the loop over watched_room_ids from position i on; q gives the outcome
\* of each room's membership request.  "True", "False", or "raise" when
\* room_members raises
RECURSIVE KnownFrom(_, _, _, _)
KnownFrom(i, user_id, exclude_room, q) ==
    IF i > Len(watched_room_ids) THEN "False"
    ELSE LET room_id == watched_room_ids[i] IN
         IF exclude_room = room_id
         THEN KnownFrom(i + 1, user_id, exclude_room, q)
         ELSE LET m == room_members(room_id, q[room_id]) IN
              IF m.raised THEN "raise"
              ELSE IF user_id \in m.members THEN "True"
              ELSE KnownFrom(i + 1, user_id, exclude_room, q)

\* user_already_known with break in place of continue: the loop ends at
\* the excluded room
RECURSIVE KnownUntilExcluded(_, _, _, _)
KnownUntilExcluded(i, user_id, exclude_room, q) ==
    IF i > Len(watched_room_ids) THEN "False"
    ELSE LET room_id == watched_room_ids[i] IN
         IF exclude_room = room_id THEN "False"
         ELSE LET m == room_members(room_id, q[room_id]) IN
              IF m.raised THEN "raise"
              ELSE IF user_id \in m.members THEN "True"
              ELSE KnownUntilExcluded(i + 1, user_id, exclude_room, q)
user_already_known_break(user_id, exclude_room, q) ==
    KnownUntilExcluded(1, user_id, exclude_room, q)

user_already_known(user_id, exclude_room, q) ==
    KnownFrom(1, user_id, exclude_room, q)

\* ------------------------------------------- populate_watched_room_ids
\* the loop over the enumerated rooms from position i on, with the registry
\* built so far (sid, w, t); no gives each room's outcome
\* the loop with space_id assigned before the watch list is appended to
RECURSIVE PopulateFrom_space_first(_, _, _, _, _, _)
PopulateFrom_space_first(order, i, sid, w, t, no) ==
    IF i > Len(order)
    THEN [space_id |-> sid, watched |-> w, invite |-> t, raised |-> FALSE]
    ELSE LET room_id == order[i]
             room_name == roomName[room_id]
             sid2 == IF room_name = SpaceName THEN room_id ELSE sid
         IN
         IF no[room_id] = "raise_name"
         THEN [space_id |-> sid, watched |-> w, invite |-> t, raised |-> TRUE]
         ELSE IF no[room_id] = "non200" \/ room_name = NoName
         THEN PopulateFrom_space_first(order, i + 1, sid, w, t, no)
         ELSE IF In(room_name, watched_rooms) /\ no[room_id] = "raise_members"
         THEN [space_id |-> sid2, watched |-> w, invite |-> t, raised |-> TRUE]
         ELSE PopulateFrom_space_first(order, i + 1, sid2,
                  IF In(room_name, watched_rooms) THEN Append(w, room_id) ELSE w,
                  IF In(room_name, to_invite) THEN Append(t, room_id) ELSE t,
                  no)

RECURSIVE PopulateFrom(_, _, _, _, _, _)
PopulateFrom(order, i, sid, w, t, no) ==
    IF i > Len(order)
    THEN [space_id |-> sid, watched |-> w, invite |-> t, raised |-> FALSE]
    ELSE LET room_id == order[i]
             room_name == roomName[room_id]
         IN
         IF no[room_id] = "raise_name"
         THEN [space_id |-> sid, watched |-> w, invite |-> t, raised |-> TRUE]
         ELSE IF no[room_id] = "non200" \/ room_name = NoName
         THEN PopulateFrom(order, i + 1, sid, w, t, no)
         ELSE IF In(room_name, watched_rooms) /\ no[room_id] = "raise_members"
         THEN [space_id |-> sid, watched |-> w, invite |-> t, raised |-> TRUE]
         ELSE PopulateFrom(order, i + 1,
                  IF room_name = SpaceName THEN room_id ELSE sid,
                  IF In(room_name, watched_rooms) THEN Append(w, room_id) ELSE w,
                  IF In(room_name, to_invite) THEN Append(t, room_id) ELSE t,
                  no)

\* if len(watched_rooms) != len(watched_room_ids): print('Cannot find ids of
\* all rooms ...'), for the watch list w the loop has built
Diagnostic(w) == Len(watched_rooms) # Len(w)

\* populate_watched_room_ids emptying the two lists before the joined_rooms
\* request instead of after it
populate_reset_first(order, eo, no) ==
    IF eo = "transport"
    THEN [space_id |-> space_id, watched |-> << >>, invite |-> << >>,
          raised |-> TRUE, diag |-> FALSE, end |-> "raised"]
    ELSE IF eo # "ok"
    THEN [space_id |-> space_id, watched |-> << >>, invite |-> << >>,
          raised |-> FALSE, diag |-> FALSE, end |-> "enum_failed"]
    ELSE LET p == PopulateFrom(order, 1, space_id, << >>, << >>, no)
             d == Diagnostic(p.watched)
         IN
         [space_id |-> p.space_id, watched |-> p.watched, invite |-> p.invite,
          raised |-> p.raised, diag |-> ~p.raised /\ d,
          end |-> IF p.raised THEN "raised"
                  ELSE IF d THEN "done_diag" ELSE "done"]

\* populate_watched_room_ids appending to the lists it finds
populate_appending(order, eo, no) ==
    LET p == PopulateFrom(order, 1, space_id, watched_room_ids, to_invite_ids, no)
    IN  [space_id |-> p.space_id, watched |-> p.watched, invite |-> p.invite,
         raised |-> p.raised, diag |-> FALSE, end |-> "done"]

\* one invocation: eo is the outcome of the joined_rooms request, order the
\* order in which the server lists the rooms.  diag: the 'Cannot find ids
\* of all rooms' line is printed; end: how the invocation ended ("raised",
\* "enum_failed" for the early returns, "done_diag", "done")
populate_watched_room_ids(order, eo, no) ==
    IF eo = "transport"
    THEN [space_id |-> space_id, watched |-> watched_room_ids,
          invite |-> to_invite_ids, raised |-> TRUE, diag |-> FALSE,
          end |-> "raised"]
    ELSE IF eo # "ok"
    THEN [space_id |-> space_id, watched |-> watched_room_ids,
          invite |-> to_invite_ids, raised |-> FALSE, diag |-> FALSE,
          end |-> "enum_failed"]
    ELSE LET p == PopulateFrom(order, 1, space_id, << >>, << >>, no)
             d == Diagnostic(p.watched)
         IN
         [space_id |-> p.space_id, watched |-> p.watched, invite |-> p.invite,
          raised |-> p.raised,
          diag |-> ~p.raised /\ d,
          end |-> IF p.raised THEN "raised"
                  ELSE IF d THEN "done_diag" ELSE "done"]

\* ------------------------------------------------------------- notify
\* IsJoin without the comparison with the previous membership
IsJoin_any_prev(ev) == ev.membership = "join"

\* a join: event.membership == "join" and != event.prev_membership
IsJoin(ev) == ev.membership = "join" /\ ev.membership # ev.prev_membership

\* the invite loop leaving after its first request
InvitesFrom_first_only(i, user_id, io) ==
    IF i > Len(to_invite_ids) THEN [eff |-> << >>, raised |-> FALSE]
    ELSE [eff |-> <<[type |-> "invite", room |-> to_invite_ids[i],
                     user |-> user_id, res |-> io[to_invite_ids[i]]]>>,
          raised |-> io[to_invite_ids[i]] = "transport"]

\* the invite loop over to_invite_ids from position i on; io gives the
\* outcome of each room's invite request.  A request that raises ends the
\* loop and the handler
RECURSIVE InvitesFrom(_, _, _)
InvitesFrom(i, user_id, io) ==
    IF i > Len(to_invite_ids) THEN [eff |-> << >>, raised |-> FALSE]
    ELSE LET to_invite_id == to_invite_ids[i]
             e == [type |-> "invite", room |-> to_invite_id,
                   user |-> user_id, res |-> io[to_invite_id]]
         IN
         IF io[to_invite_id] = "transport"
         THEN [eff |-> <<e>>, raised |-> TRUE]
         ELSE LET rest == InvitesFrom(i + 1, user_id, io) IN
              [eff |-> <<e>> \o rest.eff, raised |-> rest.raised]

\* the invite loop guarded by the watch set instead of the space
InviteGuard_watched(ev) == In(ev.room, watched_room_ids)

\* the if statement guarding the invite loop
InviteGuard(ev) == ev.room = space_id

\* the email guarded by the --matrixwatch names alone
EmailGuard_watch_only(ev) == In(display_name(ev.room), config.watch)
\* the email guarded by the resolved ids instead of the names
EmailGuard_by_id(ev) == In(ev.room, watched_room_ids)

\* the if statement guarding the email
EmailGuard(ev) == In(display_name(ev.room), watched_rooms)

\* except smtplib.SMTPException in place of except Exception
EmailCaught_smtp_only(mail) == mail = "smtp_fail"

\* except Exception: every failure inside the try block is caught
EmailCaught(mail) == mail \in {"smtp_fail", "no_displayname"}

\* notify with the email block before the invite block
notify_email_first(ev, q, io, mail) ==
    LET known == IF IsJoin(ev)
                 THEN user_already_known(ev.user, ev.room, q) ELSE "n/a"
        new == IsJoin(ev) /\ known = "False"
        mailstep == new /\ EmailGuard(ev)
        mailexc == mailstep /\ mail # "sent" /\ ~EmailCaught(mail)
        inv == IF new /\ ~mailexc /\ InviteGuard(ev)
               THEN InvitesFrom(1, ev.user, io)
               ELSE [eff |-> << >>, raised |-> FALSE]
    IN
    [known |-> known,
     effects |-> (IF mailstep
                  THEN <<[type |-> "email", room |-> ev.room,
                          user |-> ev.user, res |-> mail]>>
                  ELSE << >>) \o inv.eff,
     exc |-> IF known = "raise" THEN "room_members"
             ELSE IF mailexc THEN "mail"
             ELSE IF inv.raised THEN "invite"
             ELSE "none"]

\* what notify does with event ev under the request outcomes q (membership
\* requests), io (invite requests) and mail: the requests and the email it
\* attempts, in order, and the exception that leaves it, if any
notify(ev, q, io, mail) ==
    LET known == IF IsJoin(ev)
                 THEN user_already_known(ev.user, ev.room, q) ELSE "n/a"
        new == IsJoin(ev) /\ known = "False"
        inv == IF new /\ InviteGuard(ev)
               THEN InvitesFrom(1, ev.user, io)
               ELSE [eff |-> << >>, raised |-> FALSE]
        mailstep == new /\ ~inv.raised /\ EmailGuard(ev)
    IN
    [known |-> known,
     effects |-> inv.eff \o
                 (IF mailstep
                  THEN <<[type |-> "email", room |-> ev.room,
                          user |-> ev.user, res |-> mail]>>
                  ELSE << >>),
     exc |-> IF known = "raise" THEN "room_members"
             ELSE IF inv.raised THEN "invite"
             ELSE IF mailstep /\ mail # "sent" /\ ~EmailCaught(mail) THEN "mail"
             ELSE "none"]

\* ------------------------------------------------------------ the state
NoEvent == [room |-> "-", user |-> "-", membership |-> "-", prev_membership |-> "-"]

\* the effects of a handler invocation that are invite requests / emails
Invites(l) == SelectSeq(l.effects, LAMBDA e : e.type = "invite")
Emails(l) == SelectSeq(l.effects, LAMBDA e : e.type = "email")
\* an email was attempted and failed
MailFailed(l) == \E i \in 1..Len(l.effects) :
                    l.effects[i].type = "email" /\ l.effects[i].res # "sent"

\* no event handled yet in this run
NotHandled == [handled |-> FALSE, ev |-> NoEvent, display |-> "-", known |-> "n/a",
               member_of |-> {}, degraded |-> {}, raising |-> {},
               effects |-> << >>,
               exc |-> "none", after_mail_exc |-> FALSE]

InitialMembers == [r \in Rooms |-> IF r = "!a" THEN {"@old"} ELSE {}]

Init ==
    /\ roomName = [r \in Rooms |->
                     IF r = "!s" THEN "Space" ELSE IF r = "!a" THEN "RoomA" ELSE "RoomB"]
    /\ members = InitialMembers
    /\ joined_rooms = Rooms
    /\ config \in [watch : WatchChoices, invite : InviteChoices]
    /\ space_id = "None"
    /\ watched_room_ids = << >>
    /\ to_invite_ids = << >>
    /\ pc = "run"
    /\ todo = 0
    /\ queue = << >>
    /\ last = NotHandled
    /\ emailed = {}
    /\ nev = 0
    /\ nren = 0
    /\ pop = "none"

\* ------------------------------------------------- the server's actions
\* the event is delivered to the handler when the bot's account is in the room
\* and a run is past its first sync (which passes over what came before it)
Deliver(ev) ==
    IF ev.room \in joined_rooms /\ pc \in {"startup", "sync"}
    THEN Len(queue) < MaxQueue /\ queue' = Append(queue, ev)
    ELSE queue' = queue

\* a user joins a room; the previous membership is none, invite or leave
UserJoin ==
    \E u \in Movers, r \in Rooms, prev \in {"None"} :
        /\ nev < MaxEvents
        /\ u \notin members[r]
        /\ members' = [members EXCEPT ![r] = @ \cup {u}]
        /\ Deliver([room |-> r, user |-> u, membership |-> "join",
                    prev_membership |-> prev])
        /\ nev' = nev + 1
        /\ UNCHANGED <<roomName, joined_rooms, config, registry, pc, todo,
                       last, emailed, nren, pop>>

\* a member changes display name or avatar, or the event is delivered again:
\* membership and previous membership are both "join"
ProfileChange ==
    \E u \in Movers, r \in Rooms :
        /\ nev < MaxEvents
        /\ u \in members[r]
        /\ Deliver([room |-> r, user |-> u, membership |-> "join",
                    prev_membership |-> "join"])
        /\ nev' = nev + 1
        /\ UNCHANGED <<server, config, registry, pc, todo, last, emailed, nren, pop>>

\* a member leaves or is banned
UserLeave ==
    \E u \in Movers, r \in Rooms, m \in {"leave", "ban"} :
        /\ nev < MaxEvents
        /\ u \in members[r]
        /\ members' = [members EXCEPT ![r] = @ \ {u}]
        /\ Deliver([room |-> r, user |-> u, membership |-> m,
                    prev_membership |-> "join"])
        /\ nev' = nev + 1
        /\ UNCHANGED <<roomName, joined_rooms, config, registry, pc, todo,
                       last, emailed, nren, pop>>

\* somebody is invited to a room
UserInvited ==
    \E u \in Movers, r \in Rooms :
        /\ nev < MaxEvents
        /\ u \notin members[r]
        /\ Deliver([room |-> r, user |-> u, membership |-> "invite",
                    prev_membership |-> "None"])
        /\ nev' = nev + 1
        /\ UNCHANGED <<server, config, registry, pc, todo, last, emailed, nren, pop>>

\* a room administrator sets, changes or removes a room's name
Rename ==
    \E c \in RenameChoices :
        /\ nren < MaxRenames
        /\ c[2] # roomName[c[1]]
        /\ roomName' = [roomName EXCEPT ![c[1]] = c[2]]
        /\ nren' = nren + 1
        /\ UNCHANGED <<members, joined_rooms, config, registry, pc, todo,
                       queue, last, emailed, nev, pop>>

\* ---------------------------------------------------- the bot's actions
\* bot.run() begins: login and the first sync (ok, or raising), after which
\* the startup callback is due once per joined room
BotRunWith(OK) ==
    /\ pc = "run"
    /\ \E ok \in OK :
        IF ok
        THEN /\ todo' = Cardinality(joined_rooms)
             /\ pc' = IF joined_rooms = {} THEN "sync" ELSE "startup"
        ELSE /\ pc' = "sleep"
             /\ todo' = todo
    /\ queue' = << >>
    /\ last' = NotHandled
    /\ UNCHANGED <<server, config, registry, emailed, nev, nren, pop>>

\* the outcomes of the name requests of one populate_watched_room_ids
NameOutcomeMaps(NO) ==
    {no \in [joined_rooms -> NO] :
        Cardinality({r \in joined_rooms : no[r] # "ok"}) <= MaxNameFailures}

\* room_joined resolving whenever it is called
NeedsResolving_always == TRUE

\* if len(watched_room_ids) == 0:
NeedsResolving == Len(watched_room_ids) = 0

\* the on_startup callback, called for one joined room
room_joinedWith(EO, NO) ==
    /\ pc = "startup"
    /\ todo > 0
    /\ IF NeedsResolving
       THEN \E order \in Orders(joined_rooms), eo \in EO,
               no \in NameOutcomeMaps(NO) :
               LET p == populate_watched_room_ids(order, eo, no) IN
               /\ space_id' = p.space_id
               /\ watched_room_ids' = p.watched
               /\ to_invite_ids' = p.invite
               /\ todo' = IF p.raised THEN 0 ELSE todo - 1
               /\ pc' = IF p.raised THEN "sleep"
                        ELSE IF todo = 1 THEN "sync" ELSE "startup"
               /\ queue' = IF p.raised THEN << >> ELSE queue
               /\ pop' = p.end
       ELSE /\ todo' = todo - 1
            /\ pc' = IF todo = 1 THEN "sync" ELSE "startup"
            /\ UNCHANGED <<registry, queue, pop>>
    /\ UNCHANGED <<server, config, last, emailed, nev, nren>>

\* the rooms whose members notify may ask for, the rooms it may invite to,
\* and whether it may come to the email
QueryRooms(ev) ==
    IF IsJoin(ev) THEN SeqToSet(watched_room_ids) \ {ev.room} ELSE {}
InviteRooms(ev) ==
    IF IsJoin(ev) /\ InviteGuard(ev) THEN SeqToSet(to_invite_ids) ELSE {}
MailChoices(ev, ML) ==
    IF IsJoin(ev) /\ EmailGuard(ev) THEN ML ELSE {"n/a"}

\* the on_custom_event callback for the next membership event
NotifyWith(MO, IO, ML) ==
    /\ pc = "sync"
    /\ queue # << >>
    /\ LET ev == Head(queue) IN
       \E q \in [QueryRooms(ev) -> MO],
          io \in [InviteRooms(ev) -> IO],
          mail \in MailChoices(ev, ML) :
          LET res == notify(ev, q, io, mail) IN
          /\ last' = [handled |-> TRUE,
                      ev |-> ev,
                      display |-> display_name(ev.room),
                      known |-> res.known,
                      member_of |-> {r \in SeqToSet(watched_room_ids) \ {ev.room} :
                                       ev.user \in members[r]},
                      degraded |-> {r \in DOMAIN q : q[r] \in {"non200", "malformed"}},
                      raising |-> {r \in DOMAIN q : q[r] = "transport"},
                      effects |-> res.effects,
                      exc |-> res.exc,
                      after_mail_exc |-> MailFailed(last)]
          /\ queue' = IF res.exc = "none" THEN Tail(queue) ELSE << >>
          /\ pc' = IF res.exc = "none" THEN "sync" ELSE "sleep"
          /\ emailed' = emailed \cup
                {e.user : e \in {x \in SeqToSet(res.effects) :
                                    x.type = "email" /\ x.res = "sent"}}
    /\ UNCHANGED <<server, config, registry, todo, nev, nren, pop>>

\* syncing raises (connection lost, token no longer valid)
SyncError ==
    /\ pc = "sync"
    /\ pc' = "sleep"
    /\ queue' = << >>
    /\ UNCHANGED <<server, config, registry, todo, last, emailed, nev, nren, pop>>

\* the loop going round again only when no handler was left by an exception
SleepAndRetry_unless_handler ==
    /\ pc = "sleep"
    /\ ~(last.handled /\ last.exc # "none")
    /\ pc' = "run"
    /\ UNCHANGED <<server, config, registry, todo, queue, last, emailed, nev, nren, pop>>

\* except Exception ... time.sleep(10), and round the while loop again
SleepAndRetry ==
    /\ pc = "sleep"
    /\ pc' = "run"
    /\ UNCHANGED <<server, config, registry, todo, queue, last, emailed, nev, nren, pop>>

BotRun == BotRunWith(BOOLEAN)
room_joined == room_joinedWith(EnumOutcomes, NameOutcomes)
Notify == NotifyWith(MemberOutcomes, InviteOutcomes, MailOutcomes)

Next ==
    \/ UserJoin
    \/ ProfileChange
    \/ UserLeave
    \/ UserInvited
    \/ Rename
    \/ BotRun
    \/ room_joined
    \/ Notify
    \/ SyncError
    \/ SleepAndRetry

Spec == Init /\ [][Next]_vars

\* -------------------------------------------------- the fault-free runs
\* Every request is answered and every email is sent, no room is renamed,
\* and users join while a run is listening: what is left is the order in
\* which the server's joins and the bot's handling of their events happen.
Listening == pc \in {"startup", "sync"}
JoinWhileListening == Listening /\ UserJoin
BotRunOK == BotRunWith({TRUE})
room_joinedOK == room_joinedWith({"ok"}, {"ok"})
NotifyOK == NotifyWith({"ok"}, {"ok"}, {"sent"})

NextRace ==
    \/ JoinWhileListening
    \/ BotRunOK
    \/ room_joinedOK
    \/ NotifyOK

SpecRace == Init /\ [][NextRace]_vars

\* ------------------------------------------------ the supervising loop
\* Runs that fail by requests raising (login or first sync, the joined_rooms
\* request, a members request, an invite request), by an SMTP failure, or in
\* sync.  time.sleep(10) returns and the while loop calls bot.run() again:
\* both steps are taken whenever they are due.
room_joinedLive == room_joinedWith({"ok", "transport"}, {"ok"})
NotifyLive == NotifyWith({"ok", "transport"}, {"ok", "transport"}, {"sent", "smtp_fail"})

NextLive ==
    \/ JoinWhileListening
    \/ BotRun
    \/ room_joinedLive
    \/ NotifyLive
    \/ SyncError
    \/ SleepAndRetry

SpecLive == Init /\ [][NextLive]_vars /\ WF_vars(SleepAndRetry) /\ WF_vars(BotRun)

\* ================================================================ claims
\* the event of the last notify invocation was classified as a join
LastIsJoin ==
    /\ last.handled
    /\ last.ev.membership = "join"
    /\ last.ev.prev_membership # "join"

\* the rooms the last invocation sent invite requests to, in order
InvitedRooms == [i \in 1..Len(Invites(last)) |-> Invites(last)[i].room]

\* an email of the last invocation went out
EmailSent == \E i \in 1..Len(last.effects) :
                last.effects[i].type = "email" /\ last.effects[i].res = "sent"

IsPrefix(a, b) == Len(a) <= Len(b) /\ \A i \in 1..Len(a) : a[i] = b[i]

\* ---- C1
\* C1 as stated: a join whose subject is a joined member of a room of
\* watched_room_ids other than the event's room causes no invite request
\* and no email.
C1_KnownUserNoEffect_AsStated ==
    (LastIsJoin /\ last.member_of # {})
        => (Invites(last) = << >> /\ ~EmailSent)

\* C1 amended: a join whose subject is a joined member of a room of
\* watched_room_ids other than the event's room, and that room's membership
\* request is not answered with a status other than 200 or an unparseable
\* body, causes no invite request and no email attempt.
C1_KnownUserNoEffect ==
    (LastIsJoin /\ (last.member_of \ last.degraded) # {})
        => last.effects = << >>

\* a join of a user by then in another watched room was found known
C1_Witness ==
    /\ LastIsJoin
    /\ (last.member_of \ last.degraded) # {}
    /\ last.known = "True"
    /\ In(last.display, watched_rooms)

\* ---- C2
\* the users in no room at the start
NewUsers == {u \in Users : \A r \in Rooms : u \notin InitialMembers[r]}

\* C2: once every join event is handled, a user who was in no room at the
\* start and is now a joined member of a watched room (the space or a
\* --matrixwatch room) has had a notification email sent.
C2_NewMemberNotified ==
    \A u \in NewUsers :
        (/\ pc = "sync"
         /\ queue = << >>
         /\ \E r \in Rooms : In(roomName[r], watched_rooms) /\ u \in members[r])
            => u \in emailed

\* ---- C3
\* C3: an event that is not a join (another new membership, or the previous
\* membership equal to the new one) causes no request and no email.
C3_OnlyJoinsAct ==
    (last.handled /\ ~LastIsJoin) => (last.effects = << >> /\ last.exc = "none")

\* a join/join event in the space of a user in no other watched room
C3_Witness ==
    /\ last.handled
    /\ last.ev.membership = "join"
    /\ last.ev.prev_membership = "join"
    /\ last.ev.room = space_id
    /\ last.display = SpaceName
    /\ last.member_of = {}

\* ---- C4
\* C4: every invite request belongs to a join in the room space_id, goes to a
\* room of to_invite_ids, and follows user_already_known answering False (the
\* user is in no watched room other than the event's whose members were read).
C4_InviteOnlyFromSpace ==
    \A i \in 1..Len(Invites(last)) :
        /\ LastIsJoin
        /\ space_id # "None"
        /\ last.ev.room = space_id
        /\ In(Invites(last)[i].room, to_invite_ids)
        /\ Invites(last)[i].user = last.ev.user
        /\ last.known = "False"
        /\ last.member_of \subseteq last.degraded

\* an invite request was made
C4_Witness == Len(Invites(last)) > 0 /\ last.ev.room = space_id

\* ---- C5
\* C5 as stated, for invocations no request of which raises: a join into the
\* space by a user not known elsewhere causes exactly one invite request per
\* name given with --matrixinvite.
C5_OneInvitePerName_AsStated ==
    (LastIsJoin /\ last.ev.room = space_id /\ last.known = "False"
                /\ last.exc = "none")
        => Len(Invites(last)) = Len(to_invite)

\* C5 amended: a join into the room space_id by a user user_already_known
\* reports as not known causes one invite request per room of to_invite_ids,
\* in the order of to_invite_ids, up to and including the first request that
\* raises; all of to_invite_ids when none raises.
C5_OneInvitePerResolvedRoom ==
    (LastIsJoin /\ last.ev.room = space_id /\ last.known = "False")
        => /\ IsPrefix(InvitedRooms, to_invite_ids)
           /\ last.exc # "invite" => InvitedRooms = to_invite_ids
           /\ last.exc = "invite" =>
                 /\ Len(InvitedRooms) > 0
                 /\ Invites(last)[Len(InvitedRooms)].res = "transport"
           /\ \A i \in 1..Len(InvitedRooms) :
                 i < Len(InvitedRooms) => Invites(last)[i].res # "transport"

\* both invite targets were invited to
C5_Witness ==
    /\ LastIsJoin
    /\ last.ev.room = space_id
    /\ Len(to_invite_ids) = 2
    /\ InvitedRooms = to_invite_ids

\* ---- C6
\* the scenario: --matrixwatch RoomA --matrixinvite RoomB, the space and RoomA
\* resolved into the watch set and RoomB the invite target, and a user in no
\* other watched room joins the space; no request of the handler raises
C6_Scenario ==
    /\ config.watch = <<"RoomA">>
    /\ config.invite = <<"RoomB">>
    /\ roomName["!s"] = "Space" /\ roomName["!a"] = "RoomA" /\ roomName["!b"] = "RoomB"
    /\ space_id = "!s"
    /\ SeqToSet(watched_room_ids) = {"!s", "!a"}
    /\ to_invite_ids = <<"!b">>
    /\ LastIsJoin
    /\ last.ev.room = "!s"
    /\ last.member_of = {}
    /\ last.exc = "none"

\* C6 as stated: in the scenario one invite to RoomB and no email.
C6_InviteButNoEmail_AsStated ==
    C6_Scenario => (InvitedRooms = <<"!b">> /\ Emails(last) = << >>)

\* C6 amended: in the scenario one invite to RoomB and then one email attempt
\* for the user, the space's name being the first of watched_rooms.
C6_InviteAndEmail ==
    C6_Scenario =>
        /\ InvitedRooms = <<"!b">>
        /\ Len(Emails(last)) = 1
        /\ Emails(last)[1].user = last.ev.user
        /\ last.effects[Len(last.effects)].type = "email"
        /\ watched_rooms[1] = last.display

\* the scenario with the email sent
C6_Witness == C6_Scenario /\ EmailSent

\* ---- C7
\* C7: an email is attempted only for a join in a room whose display name is
\* one of watched_rooms, whatever the resolved ids are: a join in a room of
\* watched_room_ids whose display name is none of them gets no email.
C7_EmailByName ==
    /\ Emails(last) # << >> => (LastIsJoin /\ In(last.display, watched_rooms))
    /\ (LastIsJoin /\ In(last.ev.room, watched_room_ids)
            /\ ~In(last.display, watched_rooms)) => Emails(last) = << >>

\* an email went out while watched_room_ids was empty
C7_Witness == EmailSent /\ watched_room_ids = << >>

\* ---- C8
\* C8: a notify invocation whose email fails leaves no exception, keeps the
\* run listening with the later events still pending, and leaves the registry
\* as it was.
C8_EmailFailureCaught ==
    [][(Notify /\ MailFailed(last'))
          => /\ last'.exc = "none"
             /\ pc' = "sync"
             /\ queue' = Tail(queue)
             /\ registry' = registry]_vars

\* an event was handled after an invocation whose email failed
C8_Witness == last.handled /\ last.after_mail_exc

\* ---- C9
\* C9: no notify invocation is left by an exception out of room_members.
C9_RoomMembersNeverRaises == last.exc # "room_members"

\* ---- C10
\* C10: a join into the space by a user not known elsewhere causes an invite
\* request for every room of to_invite_ids, whatever becomes of the others.
C10_InvitesIndependent ==
    (LastIsJoin /\ last.ev.room = space_id /\ last.known = "False")
        => \A i \in 1..Len(to_invite_ids) : In(to_invite_ids[i], InvitedRooms)

\* ---- C11
\* C11: whenever a run has ended by a failure and the loop is in its sleep,
\* the loop comes to call bot.run() again, and the call is made; this holds
\* after every failure, however many came before.
C11_RetriesForever ==
    /\ (pc = "sleep") ~> (pc = "run")
    /\ (pc = "run") ~> (pc \in {"startup", "sync", "sleep"})

\* a handler was left by an exception, and the loop is at bot.run() again
C11_Witness == pc = "run" /\ last.handled /\ last.exc # "none"

\* ---- C12
\* C12, for behaviours without a rename in which RoomA is watched (every
\* resolution that runs to its end then finds a watched room): whenever
\* notify has evaluated user_already_known for a join, the registry has been
\* resolved, so watched_room_ids is not empty.
C12_ResolvedBeforeUse ==
    (LastIsJoin /\ nren = 0 /\ config.watch = <<"RoomA">>)
        => watched_room_ids # << >>

\* ---- C13
\* the rooms of watched_room_ids other than the event's whose members
\* request is answered with a list the user is in
ListedIn == (last.member_of \ last.degraded) \ last.raising

\* C13: for every join handled, user_already_known returns True exactly when
\* the user is in the joined-member list of a room of watched_room_ids other
\* than the event's room, whatever the order of watched_room_ids.
C13_KnownIffMember ==
    LastIsJoin => (last.known = "True" <=> ListedIn # {})

\* ---- C14
\* the joined rooms that carry one of the names of list l
NamedIn(l) == {r \in joined_rooms : In(roomName[r], l)}
NoDup(sq) == Len(sq) = Cardinality(SeqToSet(sq))
\* the registry after the step holds exactly the rooms the server-side rooms
\* and names determine
Recomputed ==
    /\ SeqToSet(watched_room_ids') = NamedIn(watched_rooms)
    /\ SeqToSet(to_invite_ids') = NamedIn(to_invite)
    /\ NoDup(watched_room_ids') /\ NoDup(to_invite_ids')
    /\ space_id' \in (IF NamedIn(<<SpaceName>>) = {} THEN {"None"}
                      ELSE NamedIn(<<SpaceName>>))
\* the registry after the step holds only rooms the server-side rooms and
\* names determine
PartlyComputed ==
    /\ SeqToSet(watched_room_ids') \subseteq NamedIn(watched_rooms)
    /\ SeqToSet(to_invite_ids') \subseteq NamedIn(to_invite)
    /\ NoDup(watched_room_ids') /\ NoDup(to_invite_ids')
    /\ space_id' \in NamedIn(<<SpaceName>>) \cup {"None"}

\* a step of room_joined that invokes populate_watched_room_ids: the step
\* of a run in its startup callbacks that takes one callback off todo, with
\* the if statement of room_joined true
Resolving == NeedsResolving /\ pc = "startup" /\ todo' # todo

\* C14 as stated: after every invocation of populate_watched_room_ids the
\* registry is exactly what the server-side rooms and names determine.
C14_Recomputed_AsStated ==
    [][Resolving => Recomputed]_vars

\* C14 amended: an invocation every request of which is answered 200 leaves
\* exactly the joined rooms carrying a configured name, each once, whatever
\* the lists held before; every invocation leaves the registry as it was or
\* leaves only such rooms; and an invocation starts from space_id None.
C14_Recomputed ==
    [][Resolving
          => /\ space_id = "None"
             /\ registry' = registry \/ PartlyComputed
             /\ room_joinedOK => Recomputed]_vars

\* a resolution ran to its end and found two rooms with the space's name
C14_Witness ==
    /\ pop = "done_diag"
    /\ SeqToSet(watched_room_ids) = NamedIn(watched_rooms)
    /\ Cardinality(NamedIn(<<SpaceName>>)) = 2
    /\ to_invite_ids # << >>

\* ---- C15
\* a configured watch name that no room of the watch list w carries
Unresolved(w) ==
    \E n \in SeqToSet(watched_rooms) : \A i \in 1..Len(w) : roomName[w[i]] # n

\* C15, for invocations that run to the end of the loop: when the invocation
\* ends with a configured watch name not resolved to a room id, the 'Cannot
\* find ids of all rooms' diagnostic is printed.
C15_DiagnosticWhenUnresolved ==
    [][(Resolving /\ pop' \in {"done", "done_diag"} /\ Unresolved(watched_room_ids'))
          => pop' = "done_diag"]_vars

\* ---- C16
\* C16: in every state between handler invocations, a space_id that is set
\* is one of watched_room_ids.
C16_SpaceIsWatched ==
    space_id # "None" => In(space_id, watched_room_ids)

\* the resolution was left part-way by an exception with the space resolved,
\* and a later run is listening
C16_Witness == pop = "raised" /\ space_id # "None" /\ pc = "sync"

\* ---- C17
\* C17: once watched_room_ids is not empty, no step changes watched_room_ids,
\* to_invite_ids or space_id: no handler, no startup callback, no restart, no
\* rename or membership change on the server.
C17_RegistryFrozen ==
    [][Len(watched_room_ids) > 0 => registry' = registry]_vars

\* a run started after a failed one is listening with the registry the failed
\* run left, a room of which has been renamed since
C17_Witness ==
    /\ pop = "raised"
    /\ pc = "sync"
    /\ \E i \in 1..Len(watched_room_ids) :
          ~In(roomName[watched_room_ids[i]], watched_rooms)

\* ---- C18
\* room_joined with the joined_rooms request answered with another status
\* than 200 or with a body that does not parse (no name request is made)
room_joinedEnumFails == room_joinedWith({"non200", "malformed"}, {"ok"})

\* C18: an invocation whose joined_rooms request is answered with a status
\* other than 200, or with a body that does not parse to a joined_rooms list,
\* returns without an exception and leaves watched_room_ids, to_invite_ids
\* and space_id as they were.
C18_EnumFailureKeepsRegistry ==
    [][(Resolving /\ room_joinedEnumFails)
          => /\ registry' = registry
             /\ pc' \in {"startup", "sync"}
             /\ todo' = todo - 1
             /\ pop' = "enum_failed"]_vars

\* the invocation returned early and the invite targets an earlier
\* invocation resolved are still there
C18_Witness == pop = "enum_failed" /\ to_invite_ids # << >>

\* ---- C19
\* C19: within one handler invocation no invite request comes after the
\* email attempt, and when a join into the space comes to the email, an
\* invite request for every room of to_invite_ids, in their order, has been
\* issued before it.
C19_InvitesBeforeEmail ==
    /\ \A i \in 1..Len(last.effects) :
          last.effects[i].type = "email" => i = Len(last.effects)
    /\ (LastIsJoin /\ last.ev.room = space_id /\ Emails(last) # << >>)
          => /\ InvitedRooms = to_invite_ids
             /\ Len(last.effects) = Len(to_invite_ids) + 1

\* a join into the space caused two invite requests and then the email
C19_Witness ==
    /\ LastIsJoin
    /\ last.ev.room = space_id
    /\ Len(last.effects) = 3
    /\ last.effects[1].type = "invite" /\ last.effects[2].type = "invite"
    /\ last.effects[3].type = "email"

====
